---- MODULE Spec2Model ----
(***************************************************************************)
(* Whitted integrator (src/integrators/whitted.rs) and the uber and mirror *)
(* material compilers (src/materials/uber.rs, src/materials/mirror.rs).    *)
(*                                                                         *)
(* A Spectrum is a tuple of channel values; Float quantities are integers  *)
(* (1 stands for 1.0).  Arena handles are 0-based as in the code: handle h *)
(* names element h + 1 of the TLA+ sequence.  Option<usize> is an integer  *)
(* with NoneIdx for None.                                                  *)
(***************************************************************************)
EXTENDS Integers, Sequences, FiniteSets, TLC

VARIABLES
    stack,       \* li frames, outermost first; the last one is running
    arena_bsdf,  \* Vec<Bsdf>
    arena_bxdf,  \* Vec<Bxdf>
    retval,      \* Spectrum returned by the frame that returned last, or NoRet
    pulls,       \* number of sampler.get_2d() calls so far
    panicked,    \* panic!("no isect.bsdf found") was raised
    max_depth,   \* WhittedIntegrator.max_depth
    lights,      \* scene.lights
    mat,         \* material handed to a compiler (compiler specification)
    si           \* SurfaceInteraction handed to a compiler, and its result

vars == <<stack, arena_bsdf, arena_bxdf, retval, pulls, panicked, max_depth, lights, mat, si>>

-----------------------------------------------------------------------------
(* Bounds *)

\* largest max_depth explored (max_depth is a u32, so 0 is included)
MaxMaxDepth == 2
\* most pass-through frames (hits without a BSDF) on one call chain
MaxPassThrough == 2
\* most lights in scene.lights
MaxLights == 2
\* largest texture channel value (the smallest is -1, below the clamp)
MaxTex == 1

-----------------------------------------------------------------------------
(* Spectrum *)

Channels == 1 .. 2

Black == [c \in Channels |-> 0]

SpectrumNew(v) == [c \in Channels |-> v]

IsBlack(s) == \A c \in Channels : s[c] = 0

SAdd(a, b) == [c \in Channels |-> a[c] + b[c]]

SSub(a, b) == [c \in Channels |-> a[c] - b[c]]

SMul(a, b) == [c \in Channels |-> a[c] * b[c]]

SScale(a, k) == [c \in Channels |-> a[c] * k]

SDiv(a, k) == [c \in Channels |-> a[c] \div k]

\* Spectrum::clamp(0.0, INFINITY)
Clamp(s) == [c \in Channels |-> IF s[c] < 0 THEN 0 ELSE s[c]]

-----------------------------------------------------------------------------
(* Option values *)

NoneIdx == -1

NoScale == <<>>

NoTex == -1

\* mutant: the handle is the length itself
LastIdxOffByOne(arena) == Len(arena)

\* Vec::len() - 1 after a push
LastIdx(arena) == Len(arena) - 1

-----------------------------------------------------------------------------
(* Scattering lobes and composed BSDFs (core::reflection) *)

\* Bsdf::new(si, eta): no lobes yet.  bxdfs holds lobe-arena indices (uber),
\* inline holds lobes stored in the BSDF itself (mirror).
BsdfNew(s, eta) == [eta |-> eta, ns |-> s.shading_n, bxdfs |-> <<>>, inline |-> <<>>]

\* Bsdf::add(index)
BsdfAdd(bsdf, idx) == [bsdf EXCEPT !.bxdfs = Append(@, idx)]

\* Bsdf::add(Bxdf)
BsdfAddLobe(bsdf, lobe) == [bsdf EXCEPT !.inline = Append(@, lobe)]

SpecularTransmissionNew(t, eta_a, eta_b, mode, sc) ==
    [type |-> "SpecTrans", s |-> t, eta_a |-> eta_a, eta_b |-> eta_b, mode |-> mode, sc |-> sc]

LambertianReflectionNew(r, sc) ==
    [type |-> "LambertianRefl", s |-> r, sc |-> sc]

MicrofacetReflectionNew(r, distrib, fresnel, sc) ==
    [type |-> "MicrofacetRefl", s |-> r, distrib |-> distrib, fresnel |-> fresnel, sc |-> sc]

SpecularReflectionNew(r, fresnel, sc) ==
    [type |-> "SpecRefl", s |-> r, fresnel |-> fresnel, sc |-> sc]

FresnelDielectric(eta_i, eta_t) == [kind |-> "Dielectric", eta_i |-> eta_i, eta_t |-> eta_t]

FresnelNoOp == [kind |-> "NoOp"]

\* TrowbridgeReitzDistribution::roughness_to_alpha: the value is tagged as remapped
RoughnessToAlpha(r) == [remapped |-> r]

TrowbridgeReitzNew(alphax, alphay, samplevis) ==
    [alpha_x |-> alphax, alpha_y |-> alphay, sample_visible_area |-> samplevis]

\* Material::bump: perturbs the shading normal in place
Bump(s) == [s EXCEPT !.shading_n = 1]

\* the lobes of a BSDF, arena-indexed ones resolved, in stored order
Lobes(bsdf, ax) ==
    [i \in 1 .. Len(bsdf.bxdfs) |-> ax[bsdf.bxdfs[i] + 1]] \o bsdf.inline

-----------------------------------------------------------------------------
(* UberMaterial::compute_scattering_functions *)

\* arena_bxdf.push(lobe); bsdf.add(arena_bxdf.len() - 1)
PushLobe(st, lobe) ==
    LET ax == Append(st.ax, lobe)
    IN  [ax |-> ax, bsdf |-> BsdfAdd(st.bsdf, LastIdx(ax))]

\* mutant: the BSDF always takes the evaluated eta
UberBsdfEtaAlways(t, e) == e

\* the relative index the BSDF is constructed with (lines 172-177)
UberBsdfEta(t, e) == IF ~IsBlack(t) THEN 1 ELSE e

\* the guard of one conditional lobe append (lines 178, 195, 207, 234, 251)
AppendsLobe(driving) == ~IsBlack(driving)

\* mutant: the opacity does not attenuate the texture value
AttenuateNot(op, k) == Clamp(k)

\* op * texture.evaluate(si).clamp(0, INFINITY) (lines 140-149, 162-171)
Attenuate(op, k) == SMul(op, Clamp(k))

\* mutant: the compiler clears the BSDF arena before it pushes
StoreBsdfClearing(s, ab, bsdf) == [si |-> [s EXCEPT !.bsdf = 0], ab |-> <<bsdf>>]

\* arena_bsdf.push(bsdf); si.bsdf = Some(arena_bsdf.len() - 1)
StoreBsdf(s, ab, bsdf) ==
    LET ab2 == Append(ab, bsdf)
    IN  [si |-> [s EXCEPT !.bsdf = LastIdx(ab2)], ab |-> ab2]

UberComputeScatteringFunctions(m, s0, ab, ax, mode, scale_opt) ==
    LET use_scale == scale_opt # NoScale
        sc == IF use_scale THEN scale_opt ELSE NoScale
        s1 == IF m.bump_map THEN Bump(s0) ELSE s0
        e == m.eta
        op == Clamp(m.opacity)
        t == Clamp(SSub(SpectrumNew(1), op))
        kd == Attenuate(op, m.kd)
        ks == Attenuate(op, m.ks)
        u_rough == IF m.u_roughness # NoTex THEN m.u_roughness ELSE m.roughness
        v_rough == IF m.v_roughness # NoTex THEN m.v_roughness ELSE m.roughness
        kr == Attenuate(op, m.kr)
        kt == Attenuate(op, m.kt)
        st0 == [ax |-> ax, bsdf |-> BsdfNew(s1, UberBsdfEta(t, e))]
        st1 == IF AppendsLobe(t)
               THEN PushLobe(st0, SpecularTransmissionNew(t, 1, 1, mode, sc))
               ELSE st0
        st2 == IF AppendsLobe(kd)
               THEN PushLobe(st1, LambertianReflectionNew(kd, sc))
               ELSE st1
        fresnel == FresnelDielectric(1, e)
        u_alpha == IF m.remap_roughness THEN RoughnessToAlpha(u_rough) ELSE u_rough
        v_alpha == IF m.remap_roughness THEN RoughnessToAlpha(v_rough) ELSE v_rough
        distrib == TrowbridgeReitzNew(u_alpha, v_alpha, TRUE)
        st3 == IF AppendsLobe(ks)
               THEN PushLobe(st2, MicrofacetReflectionNew(ks, distrib, fresnel, sc))
               ELSE st2
        st4 == IF AppendsLobe(kr)
               THEN PushLobe(st3, SpecularReflectionNew(kr, fresnel, sc))
               ELSE st3
        st5 == IF AppendsLobe(kt)
               THEN PushLobe(st4, SpecularTransmissionNew(kt, 1, e, mode, sc))
               ELSE st4
        out == StoreBsdf(s1, ab, st5.bsdf)
    IN  [si |-> out.si, ab |-> out.ab, ax |-> st5.ax]

-----------------------------------------------------------------------------
(* MirrorMaterial::compute_scattering_functions *)

MirrorComputeScatteringFunctions(m, s0, arena, mode, scale_opt) ==
    LET use_scale == scale_opt # NoScale
        sc == IF use_scale THEN scale_opt ELSE NoScale
        s1 == IF m.bump_map THEN Bump(s0) ELSE s0
        r == Clamp(m.kr)
        bsdf0 == BsdfNew(s1, 1)
        fresnel == FresnelNoOp
        bsdf1 == BsdfAddLobe(bsdf0, SpecularReflectionNew(r, fresnel, sc))
        out == StoreBsdf(s1, arena, bsdf1)
    IN  [si |-> out.si, ab |-> out.ab]

-----------------------------------------------------------------------------
(* Materials and the scene *)

UberMaterialNew(kd, ks, kr, kt, roughness, u_roughness, v_roughness, opacity, eta, bump_map, remap) ==
    [kind |-> "uber", kd |-> kd, ks |-> ks, kr |-> kr, kt |-> kt, opacity |-> opacity,
     roughness |-> roughness, u_roughness |-> u_roughness, v_roughness |-> v_roughness,
     eta |-> eta, bump_map |-> bump_map, remap_roughness |-> remap]

MirrorMaterialNew(kr, bump_map) == [kind |-> "mirror", kr |-> kr, bump_map |-> bump_map]

NoMaterial == [kind |-> "none"]

\* texture values: the opacity over every channel combination, the others
\* over a negative or zero first channel and any second channel
OpSpectra == {<<a, b>> : a \in -1 .. MaxTex, b \in -1 .. MaxTex}

TexSpectra == {<<a, b>> : a \in {-1, 0}, b \in 0 .. MaxTex}

Etas == {1, 2}

ScaleOpts == {NoScale, <<1, 1>>}

UberMaterials ==
    {UberMaterialNew(kd, ks, kr, kt, 1, NoTex, NoTex, op, e, FALSE, TRUE) :
        kd \in TexSpectra, ks \in TexSpectra, kr \in TexSpectra, kt \in TexSpectra,
        op \in OpSpectra, e \in Etas}
    \cup {UberMaterialNew(<<0, 1>>, <<0, 1>>, Black, Black, 1, u, v, <<1, 1>>, 2, b, rm) :
        u \in {NoTex, 2}, v \in {NoTex, 3}, b \in BOOLEAN, rm \in BOOLEAN}

MirrorMaterials == {MirrorMaterialNew(kr, b) : kr \in TexSpectra, b \in BOOLEAN}

\* a SurfaceInteraction as scene.intersect fills it in: no BSDF handle yet,
\* shading normal as intersected (0; 1 once bump-perturbed)
SurfaceInteractionNew(prim, wo) ==
    [hit |-> TRUE, prim |-> prim, p |-> prim, wo |-> wo, shading_n |-> 0, bsdf |-> NoneIdx]

SurfaceInteractionDefault ==
    [hit |-> FALSE, prim |-> 0, p |-> 0, wo |-> 0, shading_n |-> 0, bsdf |-> NoneIdx]

-----------------------------------------------------------------------------
(* The compilers on their own: one call on a drawn material *)

NoMat == [kind |-> "unset"]

\* arenas a compiler may be handed: fresh, or holding one earlier BSDF
EarlierArenas ==
    UberComputeScatteringFunctions(
        UberMaterialNew(<<0, 1>>, Black, <<0, 1>>, Black, 1, NoTex, NoTex, <<1, 1>>, 2, FALSE, TRUE),
        SurfaceInteractionNew(1, 0), <<>>, <<>>, "Radiance", NoScale)

InitMat ==
    /\ stack = <<>>
    /\ retval = <<>>
    /\ pulls = 0
    /\ panicked = FALSE
    /\ max_depth = 0
    /\ lights = <<>>
    /\ mat \in [m : UberMaterials \cup MirrorMaterials, scale_opt : ScaleOpts,
                mode : {"Radiance"}]
    /\ si = SurfaceInteractionNew(1, 0)
    /\ \/ arena_bsdf = <<>> /\ arena_bxdf = <<>>
       \/ arena_bsdf = EarlierArenas.ab /\ arena_bxdf = EarlierArenas.ax

UberCompile ==
    /\ mat # NoMat
    /\ mat.m.kind = "uber"
    /\ si.bsdf = NoneIdx
    /\ LET out == UberComputeScatteringFunctions(mat.m, si, arena_bsdf, arena_bxdf,
                                                 mat.mode, mat.scale_opt)
       IN  /\ si' = out.si
           /\ arena_bsdf' = out.ab
           /\ arena_bxdf' = out.ax
    /\ UNCHANGED <<stack, retval, pulls, panicked, max_depth, lights, mat>>

MirrorCompile ==
    /\ mat # NoMat
    /\ mat.m.kind = "mirror"
    /\ si.bsdf = NoneIdx
    /\ LET out == MirrorComputeScatteringFunctions(mat.m, si, arena_bsdf,
                                                   mat.mode, mat.scale_opt)
       IN  /\ si' = out.si
           /\ arena_bsdf' = out.ab
    /\ UNCHANGED <<stack, arena_bxdf, retval, pulls, panicked, max_depth, lights, mat>>

NextMat == UberCompile \/ MirrorCompile

SpecMat == InitMat /\ [][NextMat]_vars

-----------------------------------------------------------------------------
(* The scene (core::scene, core::light, core::interaction) *)

Dirs == {0, 1}

\* scene primitives: an interface without material, a mirror, an emitting
\* bump-mapped uber surface with a diffuse and a transmission lobe, and an
\* uber surface with a specular-reflection and a transmission lobe
ScenePrims == <<
    [material |-> NoMaterial, emission |-> Black],
    [material |-> MirrorMaterialNew(<<1, 1>>, FALSE), emission |-> Black],
    [material |-> UberMaterialNew(<<1, 0>>, Black, Black, <<1, 1>>, 1, NoTex, NoTex,
                                  <<1, 1>>, 2, TRUE, TRUE),
     emission |-> <<0, 1>>],
    [material |-> UberMaterialNew(Black, Black, <<0, 1>>, <<1, 1>>, 1, NoTex, NoTex,
                                  <<1, 1>>, 2, FALSE, TRUE),
     emission |-> Black] >>

\* scene geometry: the last primitive faces the camera only, so only rays
\* leaving the camera (origin 0) can hit it
Visible(k, ray) == k = Len(ScenePrims) => ray.o = 0

\* the lights a scene draws from, in list order; scene.lights is a prefix
SceneLights == <<"infinite", "point", "infinite", "point">>

\* Light::le(ray): only an infinite light adds radiance along a ray that escapes
LightLe(light, ray) == IF light = "infinite" THEN <<ray.d + 1, 1>> ELSE Black

\* a ray: origin (0 is the camera, k the hit point on primitive k), direction,
\* and whether it carries a RayDifferential
RayNew(o, d, differential) == [o |-> o, d |-> d, differential |-> differential]

\* Interaction::spawn_ray(d): from the hit point, no differential
SpawnRay(isect, d) == RayNew(isect.p, d, FALSE)

\* vec3_abs_dot_nrmf(w, n) over the two directions and two normals of the model
AbsDot(w, n) == IF w = n THEN 1 ELSE 0

\* SurfaceInteraction::le(w): emitted radiance of the primitive hit
IsectLe(isect, w) == ScenePrims[isect.prim].emission

\* SurfaceInteraction::get_bsdf(arena_bsdf)
HasBsdf(isect, ab) == isect.bsdf # NoneIdx /\ isect.bsdf < Len(ab)

GetBsdf(isect, ab) == ab[isect.bsdf + 1]

\* SurfaceInteraction::compute_scattering_functions: the primitive's material
\* compiles the BSDF; a primitive without material leaves isect.bsdf None
ComputeScatteringFunctions(isect, ab, ax, mode) ==
    LET m == ScenePrims[isect.prim].material
    IN  CASE m.kind = "uber" ->
                UberComputeScatteringFunctions(m, isect, ab, ax, mode, NoScale)
          [] m.kind = "mirror" ->
                LET out == MirrorComputeScatteringFunctions(m, isect, ab, mode, NoScale)
                IN  [si |-> out.si, ab |-> out.ab, ax |-> ax]
          [] OTHER -> [si |-> isect, ab |-> ab, ax |-> ax]

\* a lobe's spectrum with its optional scale
LobeValue(lobe) == IF lobe.sc = NoScale THEN lobe.s ELSE SMul(lobe.s, lobe.sc)

RECURSIVE SumSeq(_)
SumSeq(q) == IF q = <<>> THEN Black ELSE SAdd(Head(q), SumSeq(Tail(q)))

\* Bsdf::f(wo, wi, BsdfAll): the non-specular lobes summed when wo and wi lie
\* in matching hemispheres; specular lobes evaluate to zero
BsdfF(bsdf, ax, same_hemisphere) ==
    LET ls == Lobes(bsdf, ax)
        vs == [i \in 1 .. Len(ls) |->
                 IF ls[i].type \in {"LambertianRefl", "MicrofacetRefl"} /\ same_hemisphere
                 THEN LobeValue(ls[i]) ELSE Black]
    IN  SumSeq(vs)

\* Bsdf::sample_f(wo, wi, u, pdf, flags, ..): the outcomes over all u.  Without a
\* lobe of the requested type it returns zero with pdf 0; else one matching
\* lobe is sampled with pdf 1, its value scaled by the Fresnel term (0 or 1;
\* always 1 for FresnelNoOp)
SampleF(bsdf, ax, type) ==
    LET ls == Lobes(bsdf, ax)
        match == {i \in 1 .. Len(ls) : ls[i].type = type}
        frs(lobe) == IF type = "SpecRefl" /\ lobe.fresnel = FresnelNoOp THEN {1} ELSE {0, 1}
    IN  IF match = {}
        THEN {[f |-> Black, pdf |-> 0, wi |-> 0]}
        ELSE UNION {{[f |-> SScale(LobeValue(ls[i]), fr), pdf |-> 1, wi |-> w] :
                        fr \in frs(ls[i]), w \in Dirs} : i \in match}

\* Light::sample_li: the outcomes over all lights, points and u: no radiance,
\* zero density, or radiance with density 2 that arrives along the normal
\* unoccluded, occluded, from the other hemisphere, or at grazing angle
LightSample(li, pdf, wi, unoccluded, same_hemisphere) ==
    [li |-> li, pdf |-> pdf, wi |-> wi, unoccluded |-> unoccluded,
     same_hemisphere |-> same_hemisphere]

LightSamples ==
    {LightSample(Black, 2, 0, TRUE, TRUE),
     LightSample(<<2, 2>>, 0, 0, TRUE, TRUE),
     LightSample(<<2, 2>>, 2, 0, TRUE, TRUE),
     LightSample(<<2, 2>>, 2, 0, FALSE, TRUE),
     LightSample(<<2, 2>>, 2, 0, TRUE, FALSE),
     LightSample(<<2, 2>>, 2, 1, TRUE, TRUE)}

\* the loop locals before sample_li fills them (lines 81-84)
NoSample == LightSample(Black, 0, 0, FALSE, FALSE)

-----------------------------------------------------------------------------
(* WhittedIntegrator::li as a call stack of frames *)

NoRet == <<>>

NoPend == [f |-> Black, pdf |-> 0, wi |-> 0]

\* a fresh li frame: l = Spectrum::default(), isect = SurfaceInteraction::default().
\* via names the call site (top, pass, reflect, transmit); emitted and direct
\* record what steps 3 and 4 added to l; i is the position in scene.lights and
\* smp the light sample of the running loop iteration; pend holds the BSDF
\* sample of a specular helper while its recursive call runs; own counts the
\* sampler pulls the frame made itself and tested records whether the light
\* shaded last had its visibility tested
FrameNew(ray, depth, via) ==
    [pc |-> "intersect", via |-> via, ray |-> ray, depth |-> depth,
     isect |-> SurfaceInteractionDefault, n |-> 0, wo |-> 0,
     l |-> Black, emitted |-> Black, direct |-> Black, i |-> 1, smp |-> NoSample,
     pend |-> NoPend, own |-> 0, tested |-> FALSE]

Top == stack[Len(stack)]

Running == stack # <<>> /\ ~panicked

SetTop(f) == [stack EXCEPT ![Len(stack)] = f]

Push(f, callee) == Append(SetTop(f), callee)

Pop == SubSeq(stack, 1, Len(stack) - 1)

PassCount == Cardinality({k \in 1 .. Len(stack) : stack[k].via = "pass"})

\* mutant: the sampler hands out a value without advancing
Get2DPeek(n) == n

\* sampler.get_2d() (lines 88, 152, 214): one more value is consumed
Get2D(n) == n + 1

\* mutant: the cutoff compares depth instead of depth + 1
TracesSpecularLate(depth) == depth < max_depth

\* the specular cutoff of line 106 (depth as u32 + 1 < self.max_depth)
TracesSpecular(depth) == depth + 1 < max_depth

\* mutant: a specular bounce recurses at the same depth
BounceDepthSame(depth) == depth

\* the depth a specular helper recurses at (lines 183, 252)
BounceDepth(depth) == depth + 1

\* mutant: the pass-through recursion counts as a bounce
PassDepthCounted(depth) == depth + 1

\* the depth the pass-through recursion is called with (line 73)
PassDepth(depth) == depth

\* the integrator, the scene and fresh arenas and sampler
InitScene ==
    /\ max_depth \in 0 .. MaxMaxDepth
    /\ \E k \in 0 .. MaxLights : lights = SubSeq(SceneLights, 1, k)
    /\ arena_bsdf = <<>>
    /\ arena_bxdf = <<>>
    /\ retval = NoRet
    /\ pulls = 0
    /\ panicked = FALSE
    /\ mat = NoMat
    /\ si = SurfaceInteractionDefault

\* the camera rays of a top-level call li(ray, .., depth = 0)
CameraFrames == {FrameNew(RayNew(0, d, df), 0, "top") : d \in Dirs, df \in BOOLEAN}

Init ==
    /\ InitScene
    /\ \E f \in CameraFrames : stack = <<f>>

\* lines 51-54: scene.intersect(ray, &mut isect); the scene decides the outcome
SceneIntersect ==
    /\ Running
    /\ Top.pc = "intersect"
    /\ \/ stack' = SetTop([Top EXCEPT !.pc = "intersected"])
       \/ \E k \in 1 .. Len(ScenePrims) :
            /\ Visible(k, Top.ray)
            /\ ScenePrims[k].material.kind = "none" => PassCount < MaxPassThrough
            /\ stack' = SetTop([Top EXCEPT !.pc = "intersected",
                                           !.isect = SurfaceInteractionNew(k, 1 - Top.ray.d)])
    /\ UNCHANGED <<arena_bsdf, arena_bxdf, retval, pulls, panicked, max_depth, lights, mat, si>>

\* mutant: l = light.le(ray) instead of l += light.le(ray)
SumLeLast(ls, ray) == IF ls = <<>> THEN Black ELSE LightLe(ls[Len(ls)], ray)

RECURSIVE SumLe(_, _)
SumLe(ls, ray) ==
    IF ls = <<>> THEN Black ELSE SAdd(LightLe(Head(ls), ray), SumLe(Tail(ls), ray))

\* lines 114-119: miss, return the lights' radiance along the ray
LiMiss ==
    /\ Running
    /\ Top.pc = "intersected"
    /\ ~Top.isect.hit
    /\ retval' = SumLe(lights, Top.ray)
    /\ stack' = Pop
    /\ UNCHANGED <<arena_bsdf, arena_bxdf, pulls, panicked, max_depth, lights, mat, si>>

\* lines 58-77: hit; compile the material, pass through or add emitted light
LiHit ==
    /\ Running
    /\ Top.pc = "intersected"
    /\ Top.isect.hit
    /\ LET n == Top.isect.shading_n
           wo == Top.isect.wo
           out == ComputeScatteringFunctions(Top.isect, arena_bsdf, arena_bxdf, "Radiance")
           f1 == [Top EXCEPT !.isect = out.si, !.n = n, !.wo = wo]
       IN  /\ arena_bsdf' = out.ab
           /\ arena_bxdf' = out.ax
           /\ IF out.si.bsdf = NoneIdx
              THEN stack' = Push([f1 EXCEPT !.pc = "pass_wait"],
                                 FrameNew(SpawnRay(out.si, Top.ray.d), PassDepth(Top.depth), "pass"))
              ELSE LET le == IsectLe(out.si, wo)
                   IN  stack' = SetTop([f1 EXCEPT !.pc = "lights", !.l = SAdd(@, le),
                                                  !.emitted = le])
    /\ UNCHANGED <<retval, pulls, panicked, max_depth, lights, mat, si>>

\* line 67: return what the pass-through call returned
LiPassReturn ==
    /\ Running
    /\ Top.pc = "pass_wait"
    /\ retval # NoRet
    /\ stack' = Pop
    /\ UNCHANGED <<arena_bsdf, arena_bxdf, retval, pulls, panicked, max_depth, lights, mat, si>>

\* lines 80-92: the next light of scene.lights is sampled with sampler.get_2d()
LiSampleLi ==
    /\ Running
    /\ Top.pc = "lights"
    /\ Top.i <= Len(lights)
    /\ pulls' = Get2D(pulls)
    /\ \E smp \in LightSamples :
         stack' = SetTop([Top EXCEPT !.pc = "sampled", !.smp = smp, !.own = Get2D(@),
                                     !.tested = FALSE])
    /\ UNCHANGED <<arena_bsdf, arena_bxdf, retval, panicked, max_depth, lights, mat, si>>

\* mutant: the sample's density is not divided out
DirectAddUnnormalised(f, smp, n) == SScale(SMul(f, smp.li), AbsDot(smp.wi, n))

\* line 100: f * li * vec3_abs_dot_nrmf(&wi, &n) / pdf, n read at line 58
DirectAdd(f, smp, n) == SDiv(SScale(SMul(f, smp.li), AbsDot(smp.wi, n)), smp.pdf)

\* mutant: a missing BSDF adds nothing instead of panicking
DirectTermSilent(fr, smp) ==
    IF IsBlack(smp.li) \/ smp.pdf = 0 \/ ~HasBsdf(fr.isect, arena_bsdf)
    THEN [panic |-> FALSE, add |-> Black, tested |-> FALSE]
    ELSE LET f == BsdfF(GetBsdf(fr.isect, arena_bsdf), arena_bxdf, smp.same_hemisphere)
         IN  IF ~IsBlack(f) /\ smp.unoccluded
             THEN [panic |-> FALSE, add |-> DirectAdd(f, smp, fr.n), tested |-> TRUE]
             ELSE [panic |-> FALSE, add |-> Black, tested |-> ~IsBlack(f)]

\* lines 93-104 for one light sample: what is added to l, or the panic; tested
\* tells whether visibility.unoccluded(scene) was evaluated (line 99, after
\* !f.is_black() in the short-circuit conjunction)
DirectTerm(fr, smp) ==
    IF IsBlack(smp.li) \/ smp.pdf = 0
    THEN [panic |-> FALSE, add |-> Black, tested |-> FALSE]
    ELSE IF HasBsdf(fr.isect, arena_bsdf)
         THEN LET f == BsdfF(GetBsdf(fr.isect, arena_bsdf), arena_bxdf, smp.same_hemisphere)
              IN  IF ~IsBlack(f) /\ smp.unoccluded
                  THEN [panic |-> FALSE, add |-> DirectAdd(f, smp, fr.n), tested |-> TRUE]
                  ELSE [panic |-> FALSE, add |-> Black, tested |-> ~IsBlack(f)]
         ELSE [panic |-> TRUE, add |-> Black, tested |-> FALSE]

\* lines 93-105: the sample is skipped, shaded and added to l, or the BSDF is
\* missing and the render panics; then the loop moves to the next light
LiShadeLight ==
    /\ Running
    /\ Top.pc = "sampled"
    /\ LET d == DirectTerm(Top, Top.smp)
       IN  /\ panicked' = d.panic
           /\ stack' = IF d.panic THEN stack
                       ELSE SetTop([Top EXCEPT !.pc = "lights", !.i = @ + 1,
                                               !.smp = NoSample, !.l = SAdd(@, d.add),
                                               !.direct = SAdd(@, d.add),
                                               !.tested = d.tested])
    /\ UNCHANGED <<arena_bsdf, arena_bxdf, retval, pulls, max_depth, lights, mat, si>>

\* lines 106-113: after the loop, trace specular rays or return l
LiSpecularGate ==
    /\ Running
    /\ Top.pc = "lights"
    /\ Top.i > Len(lights)
    /\ IF TracesSpecular(Top.depth)
       THEN /\ stack' = SetTop([Top EXCEPT !.pc = "specular_reflect", !.tested = FALSE])
            /\ UNCHANGED retval
       ELSE /\ stack' = Pop
            /\ retval' = Top.l
    /\ UNCHANGED <<arena_bsdf, arena_bxdf, pulls, panicked, max_depth, lights, mat, si>>

\* mutant: a sample at grazing angle is traced as well
BouncesAnyCosine(smp, ns) == smp.pdf > 0 /\ ~IsBlack(smp.f)

\* the test of lines 158 and 220 on a BSDF sample
Bounces(smp, ns) == smp.pdf > 0 /\ ~IsBlack(smp.f) /\ AbsDot(smp.wi, ns) # 0

\* lines 160-182, 222-251: the spawned ray carries a differential iff ray does
SpecularRay(isect, wi, ray) ==
    [SpawnRay(isect, wi) EXCEPT !.differential = ray.differential]

\* lines 183-184, 252-253: f * li * Spectrum::new(abs_dot(wi, ns) / pdf)
SpecularTerm(smp, li, ns) == SDiv(SScale(SMul(smp.f, li), AbsDot(smp.wi, ns)), smp.pdf)

\* lines 141-157 and 188-189: specular_reflect samples the BSDF's specular
\* reflection with sampler.get_2d(), or returns zero when the handle is None
SpecularReflect ==
    /\ Running
    /\ Top.pc = "specular_reflect"
    /\ IF HasBsdf(Top.isect, arena_bsdf)
       THEN /\ pulls' = Get2D(pulls)
            /\ \E smp \in SampleF(GetBsdf(Top.isect, arena_bsdf), arena_bxdf, "SpecRefl") :
                 stack' = SetTop([Top EXCEPT !.pc = "reflect_sampled", !.pend = smp,
                                             !.own = Get2D(@)])
       ELSE /\ pulls' = pulls
            /\ stack' = SetTop([Top EXCEPT !.pc = "specular_transmit"])
    /\ UNCHANGED <<arena_bsdf, arena_bxdf, retval, panicked, max_depth, lights, mat, si>>

\* lines 158-187: the sample is traced by a recursive li or zero is returned
SpecularReflectBounce ==
    /\ Running
    /\ Top.pc = "reflect_sampled"
    /\ IF Bounces(Top.pend, Top.isect.shading_n)
       THEN stack' = Push([Top EXCEPT !.pc = "reflect_wait"],
                          FrameNew(SpecularRay(Top.isect, Top.pend.wi, Top.ray),
                                   BounceDepth(Top.depth), "reflect"))
       ELSE stack' = SetTop([Top EXCEPT !.pc = "specular_transmit", !.pend = NoPend])
    /\ UNCHANGED <<arena_bsdf, arena_bxdf, retval, pulls, panicked, max_depth, lights, mat, si>>

\* lines 183-184 and 108: the recursive li returned; l += the reflected term
SpecularReflectReturn ==
    /\ Running
    /\ Top.pc = "reflect_wait"
    /\ retval # NoRet
    /\ stack' = SetTop([Top EXCEPT !.pc = "specular_transmit", !.pend = NoPend,
                           !.l = SAdd(@, SpecularTerm(Top.pend, retval, Top.isect.shading_n))])
    /\ retval' = NoRet
    /\ UNCHANGED <<arena_bsdf, arena_bxdf, pulls, panicked, max_depth, lights, mat, si>>

\* lines 202-219 and 257-258: specular_transmit samples the BSDF's specular
\* transmission with sampler.get_2d(); when the handle is None it returns zero
\* and li returns l (line 113)
SpecularTransmit ==
    /\ Running
    /\ Top.pc = "specular_transmit"
    /\ IF HasBsdf(Top.isect, arena_bsdf)
       THEN /\ pulls' = Get2D(pulls)
            /\ \E smp \in SampleF(GetBsdf(Top.isect, arena_bsdf), arena_bxdf, "SpecTrans") :
                 stack' = SetTop([Top EXCEPT !.pc = "transmit_sampled", !.pend = smp,
                                             !.own = Get2D(@)])
            /\ retval' = retval
       ELSE /\ pulls' = pulls
            /\ stack' = Pop
            /\ retval' = Top.l
    /\ UNCHANGED <<arena_bsdf, arena_bxdf, panicked, max_depth, lights, mat, si>>

\* lines 220-256: the sample is traced by a recursive li, or zero is returned
\* and li returns l (line 113)
SpecularTransmitBounce ==
    /\ Running
    /\ Top.pc = "transmit_sampled"
    /\ IF Bounces(Top.pend, Top.isect.shading_n)
       THEN /\ stack' = Push([Top EXCEPT !.pc = "transmit_wait"],
                             FrameNew(SpecularRay(Top.isect, Top.pend.wi, Top.ray),
                                      BounceDepth(Top.depth), "transmit"))
            /\ retval' = retval
       ELSE /\ stack' = Pop
            /\ retval' = Top.l
    /\ UNCHANGED <<arena_bsdf, arena_bxdf, pulls, panicked, max_depth, lights, mat, si>>

\* lines 252-253 and 110-113: the recursive li returned; l += the transmitted
\* term and li returns l
SpecularTransmitReturn ==
    /\ Running
    /\ Top.pc = "transmit_wait"
    /\ retval # NoRet
    /\ stack' = Pop
    /\ retval' = SAdd(Top.l, SpecularTerm(Top.pend, retval, Top.isect.shading_n))
    /\ UNCHANGED <<arena_bsdf, arena_bxdf, pulls, panicked, max_depth, lights, mat, si>>

Next ==
    \/ SceneIntersect
    \/ LiMiss
    \/ LiHit
    \/ LiPassReturn
    \/ LiSampleLi
    \/ LiShadeLight
    \/ LiSpecularGate
    \/ SpecularReflect
    \/ SpecularReflectBounce
    \/ SpecularReflectReturn
    \/ SpecularTransmit
    \/ SpecularTransmitBounce
    \/ SpecularTransmitReturn

Spec == Init /\ [][Next]_vars

\* The direct-lighting stage entered at line 76 by an interaction whose handle
\* is None: the situation the panic arm of line 103 and the else arms of lines
\* 188 and 257 are written for.  No call of li produces it; it is what those
\* arms do that is examined here.
StageFrame(f, k) ==
    [f EXCEPT !.pc = "lights", !.isect = SurfaceInteractionNew(k, 1 - f.ray.d),
              !.wo = 1 - f.ray.d, !.l = ScenePrims[k].emission,
              !.emitted = ScenePrims[k].emission]

StageFrames == {StageFrame(f, k) : f \in CameraFrames, k \in 1 .. Len(ScenePrims)}

InitStage ==
    /\ InitScene
    /\ \E f \in CameraFrames \cup StageFrames : stack = <<f>>

SpecStage == InitStage /\ [][Next]_vars

-----------------------------------------------------------------------------
(* Claims on the radiance estimator *)

RECURSIVE ChannelSum(_, _, _)
ChannelSum(k, ray, c) ==
    IF k = 0 THEN 0 ELSE LightLe(lights[k], ray)[c] + ChannelSum(k - 1, ray, c)

\* the radiance of all scene lights along ray, channel by channel
BackgroundRadiance(ray) == [c \in Channels |-> ChannelSum(Len(lights), ray, c)]

FrameMissed == Running /\ Top.pc = "intersected" /\ ~Top.isect.hit

\* C1: when scene.intersect reports a miss, li returns exactly the sum over all
\* scene lights of light.le(ray), whatever depth and max_depth are, appends
\* nothing to either arena and pulls no sampler value.
C1_MissReturnsBackground ==
    [][FrameMissed =>
        /\ stack' = Pop
        /\ retval' = BackgroundRadiance(Top.ray)
        /\ arena_bsdf' = arena_bsdf
        /\ arena_bxdf' = arena_bxdf
        /\ pulls' = pulls]_vars

\* a reflected ray at depth 1 escaped a scene of two lights: the caller holds
\* the one BSDF compiled so far and receives the background radiance
C1_Witness ==
    /\ Len(stack) = 1
    /\ Top.pc = "reflect_wait"
    /\ Len(lights) = 2
    /\ Len(arena_bsdf) = 1
    /\ pulls = Len(lights) + 1
    /\ retval # NoRet
    /\ ~IsBlack(retval)

LoopDone == Running /\ Top.pc = "lights" /\ Top.i > Len(lights)

InHelper(f) ==
    f.pc \in {"specular_reflect", "reflect_sampled", "reflect_wait",
              "specular_transmit", "transmit_sampled", "transmit_wait"}

\* C2: a frame that hit a surface with a BSDF invokes specular_reflect and
\* specular_transmit iff depth + 1 < max_depth; otherwise it makes no recursive
\* call and returns exactly emitted radiance plus the direct-lighting sum.
C2_SpecularCutoff ==
    /\ [](\A k \in 1 .. Len(stack) :
            /\ InHelper(stack[k]) => stack[k].depth + 1 < max_depth
            /\ (k > 1 /\ stack[k].via \in {"reflect", "transmit"})
                    => stack[k - 1].depth + 1 < max_depth)
    /\ [][LoopDone =>
            IF Top.depth + 1 < max_depth
            THEN /\ Len(stack') = Len(stack)
                 /\ stack'[Len(stack)].pc = "specular_reflect"
            ELSE /\ stack' = Pop
                 /\ retval' = SAdd(Top.emitted, Top.direct)
                 /\ pulls' = pulls
                 /\ arena_bsdf' = arena_bsdf]_vars

\* with max_depth = 1 a primary hit on the mirror sampled both lights and
\* returned without a specular bounce: no sampler pull beyond the two light
\* samples, no BSDF but the mirror's own
C2_Witness ==
    /\ max_depth = 1
    /\ stack = <<>>
    /\ Len(lights) = 2
    /\ pulls = 2
    /\ Len(arena_bsdf) = 1
    /\ Len(arena_bsdf[1].inline) = 1
    /\ retval = Black

SpecularCount == Cardinality({k \in 1 .. Len(stack) : stack[k].via \in {"reflect", "transmit"}})

AtLeastOne(n) == IF n = 0 THEN 1 ELSE n

\* C3 as stated: the number of nested li frames is bounded by max_depth, for
\* every sequence of intersection results (the top-level frame itself is
\* allowed for when max_depth = 0).
C3_StackBoundedByMaxDepth == Len(stack) <= AtLeastOne(max_depth)

\* C3 amended: the li frames other than pass-through frames number at most
\* max(max_depth, 1); pass-through frames come on top of that bound.
C3_BounceFramesBounded ==
    /\ Len(stack) - PassCount <= AtLeastOne(max_depth)
    /\ SpecularCount <= AtLeastOne(max_depth) - 1

\* a chain as deep as it gets: max_depth frames that hit a BSDF, and
\* pass-through frames on top of them
C3_Witness ==
    /\ max_depth = MaxMaxDepth
    /\ Len(stack) - PassCount = max_depth
    /\ PassCount > 0
    /\ Len(stack) > max_depth

\* C4: the pass-through recursion keeps depth and ray.d and starts at the hit
\* point; a specular recursion uses depth + 1.  With max_depth >= 1 every li
\* frame has depth in [0, max_depth) and there are at most max_depth - 1
\* specular bounces on a chain; pass-through segments are not so bounded.
C4_DepthCounting ==
    /\ \A k \in 2 .. Len(stack) :
          /\ stack[k].via = "pass" =>
                /\ stack[k].depth = stack[k - 1].depth
                /\ stack[k].ray.d = stack[k - 1].ray.d
                /\ stack[k].ray.o = stack[k - 1].isect.p
                /\ stack[k - 1].isect.bsdf = NoneIdx
          /\ stack[k].via \in {"reflect", "transmit"} =>
                stack[k].depth = stack[k - 1].depth + 1
    /\ max_depth >= 1 =>
          /\ \A k \in 1 .. Len(stack) : stack[k].depth >= 0 /\ stack[k].depth < max_depth
          /\ SpecularCount <= max_depth - 1

\* more pass-through segments than max_depth on one chain, below a specular
\* bounce at the last depth
C4_Witness ==
    /\ max_depth >= 2
    /\ PassCount > max_depth - 1
    /\ PassCount >= 2
    /\ SpecularCount = max_depth - 1
    /\ Top.via = "pass"
    /\ Top.depth = max_depth - 1

-----------------------------------------------------------------------------
(* Claims on the material compilers *)

Compiled == si.bsdf # NoneIdx

CompiledBsdf == arena_bsdf[si.bsdf + 1]

Max0(x) == IF x < 0 THEN 0 ELSE x

\* the driving spectra of the lobes a material may append, from its textures
Drivers(m) ==
    IF m.kind = "uber"
    THEN LET op == [c \in Channels |-> Max0(m.opacity[c])]
             times(k) == [c \in Channels |-> op[c] * Max0(k[c])]
         IN  << [c \in Channels |-> Max0(1 - op[c])],
                times(m.kd), times(m.ks), times(m.kr), times(m.kt) >>
    ELSE << [c \in Channels |-> Max0(m.kr[c])] >>

NonBlackDrivers(m) ==
    Cardinality({i \in 1 .. Len(Drivers(m)) : \E c \in Channels : Drivers(m)[i][c] # 0})

\* C5: a compiler (uber or mirror) appends no lobe whose driving spectrum is
\* black: the composed BSDF holds exactly the lobes with a non-black driving
\* spectrum.
C5_NoBlackLobe ==
    Compiled =>
        LET ls == Lobes(CompiledBsdf, arena_bxdf)
        IN  /\ Len(ls) = NonBlackDrivers(mat.m)
            /\ \A i \in 1 .. Len(ls) : ~IsBlack(ls[i].s)

\* C6: the uber BSDF has relative index 1 exactly when t = clamp(1 - op) is
\* non-black, and the evaluated eta otherwise; with opacity 1 on every channel
\* and kt = kr = 0 it holds no specular-transmission and no
\* specular-reflection lobe and its relative index is the evaluated eta.
C6_UberRelativeIndex ==
    (Compiled /\ mat.m.kind = "uber") =>
        LET m == mat.m
            ls == Lobes(CompiledBsdf, arena_bxdf)
            holes == \E c \in Channels : m.opacity[c] < 1
        IN  /\ CompiledBsdf.eta = IF holes THEN 1 ELSE m.eta
            /\ ((\A c \in Channels : m.opacity[c] = 1) /\ IsBlack(m.kt) /\ IsBlack(m.kr)) =>
                  /\ \A i \in 1 .. Len(ls) : ls[i].type \notin {"SpecTrans", "SpecRefl"}
                  /\ CompiledBsdf.eta = m.eta

\* an opaque uber surface with eta 2: a diffuse and a glossy lobe, no specular lobe
C6_Witness ==
    /\ Compiled
    /\ mat.m.kind = "uber"
    /\ mat.m.opacity = <<1, 1>>
    /\ IsBlack(mat.m.kt) /\ IsBlack(mat.m.kr)
    /\ mat.m.eta = 2
    /\ CompiledBsdf.eta = 2
    /\ Len(CompiledBsdf.bxdfs) = 2

UberCompiles == mat # NoMat /\ mat.m.kind = "uber" /\ ~Compiled

\* C7: with opacity 0 on every channel the uber compiler appends exactly one
\* lobe, SpecularTransmission(t = 1, eta_a = 1, eta_b = 1), whatever kd, ks,
\* kr and kt are, and the BSDF has relative index 1.
C7_UberTransparent ==
    [][(UberCompiles /\ IsBlack(mat.m.opacity)) =>
        /\ Len(arena_bxdf') = Len(arena_bxdf) + 1
        /\ LET lobe == arena_bxdf'[Len(arena_bxdf')]
               b == arena_bsdf'[Len(arena_bsdf')]
           IN  /\ lobe.type = "SpecTrans"
               /\ lobe.s = SpectrumNew(1)
               /\ lobe.eta_a = 1
               /\ lobe.eta_b = 1
               /\ b.bxdfs = <<Len(arena_bxdf') - 1>>
               /\ b.inline = <<>>
               /\ b.eta = 1]_vars

\* a fully transparent uber surface whose kd, ks, kr and kt textures are all
\* non-black, compiled to the single opacity lobe
C7_Witness ==
    /\ Compiled
    /\ mat.m.kind = "uber"
    /\ IsBlack(mat.m.opacity)
    /\ ~IsBlack(mat.m.kd) /\ ~IsBlack(mat.m.ks) /\ ~IsBlack(mat.m.kr) /\ ~IsBlack(mat.m.kt)
    /\ mat.m.eta = 2
    /\ Len(CompiledBsdf.bxdfs) = 1
    /\ CompiledBsdf.eta = 1

IsPrefix(p, q) == Len(p) <= Len(q) /\ SubSeq(q, 1, Len(p)) = p

\* C8: a compiler call appends exactly one BSDF, leaves the earlier entries of
\* both arenas as they were, sets si.bsdf to the index of the new BSDF, and
\* the new BSDF's lobe indices name lobes appended during this call.
C8_OneBsdfPerCall ==
    [][(mat # NoMat /\ ~Compiled) =>
        /\ Len(arena_bsdf') = Len(arena_bsdf) + 1
        /\ IsPrefix(arena_bsdf, arena_bsdf')
        /\ IsPrefix(arena_bxdf, arena_bxdf')
        /\ si'.bsdf = Len(arena_bsdf') - 1
        /\ LET b == arena_bsdf'[Len(arena_bsdf')]
           IN  /\ Len(b.bxdfs) = Len(arena_bxdf') - Len(arena_bxdf)
               /\ \A i \in 1 .. Len(b.bxdfs) : b.bxdfs[i] = Len(arena_bxdf) + i - 1]_vars

\* a compiler call on arenas that already held a BSDF and its lobes, adding
\* several lobes of its own
C8_Witness ==
    /\ Compiled
    /\ si.bsdf = 1
    /\ Len(arena_bsdf) = 2
    /\ Len(CompiledBsdf.bxdfs) >= 3
    /\ Len(arena_bxdf) = Len(EarlierArenas.ax) + Len(CompiledBsdf.bxdfs)

-----------------------------------------------------------------------------
(* Claims on the arenas and the missing-BSDF panic *)

\* a frame at or past the direct-lighting stage (the pass-through branch was
\* not taken)
PastCompile(f) == f.pc \in {"lights", "sampled"} \/ InHelper(f)

\* C9: the arenas only grow during a top-level li call, so the BSDF handle of
\* every frame on the stack that did not take the pass-through branch keeps
\* resolving, get_bsdf succeeds at every use and the panic is unreachable.
C9_HandlesStayValid ==
    /\ [][IsPrefix(arena_bsdf, arena_bsdf') /\ IsPrefix(arena_bxdf, arena_bxdf')]_vars
    /\ [](/\ ~panicked
          /\ \A k \in 1 .. Len(stack) :
                PastCompile(stack[k]) =>
                    /\ HasBsdf(stack[k].isect, arena_bsdf)
                    /\ \A j \in 1 .. Len(GetBsdf(stack[k].isect, arena_bsdf).bxdfs) :
                          GetBsdf(stack[k].isect, arena_bsdf).bxdfs[j] < Len(arena_bxdf))

\* the camera-facing surface after its reflected ray returned: the nested call
\* compiled BSDFs of its own with lobes in the arena, and the frame's handle
\* (the first BSDF) is about to be used by specular_transmit
C9_Witness ==
    /\ Len(stack) = 1
    /\ Top.pc = "specular_transmit"
    /\ Top.isect.bsdf = 0
    /\ Len(arena_bsdf) >= 2
    /\ Len(arena_bxdf) >= 4
    /\ Len(arena_bsdf[1].bxdfs) = 2

NoBsdfStage == Running /\ PastCompile(Top) /\ ~HasBsdf(Top.isect, arena_bsdf)

-----------------------------------------------------------------------------
(* Claims on the sampler, direct lighting and the specular helpers *)

\* the pulls a frame has made itself when it stands at f.pc: none before direct
\* lighting, one per light sampled so far, then one per specular helper
OwnExpected(f) ==
    CASE f.pc \in {"intersect", "intersected", "pass_wait"} -> 0
      [] f.pc = "lights" -> f.i - 1
      [] f.pc = "sampled" -> f.i
      [] f.pc = "specular_reflect" -> Len(lights)
      [] f.pc \in {"reflect_sampled", "reflect_wait", "specular_transmit"} -> Len(lights) + 1
      [] f.pc \in {"transmit_sampled", "transmit_wait"} -> Len(lights) + 2

Returns == Len(stack') < Len(stack)

Calls == Len(stack') > Len(stack)

\* C11: in every li frame that reaches direct lighting each light of
\* scene.lights is sampled exactly once, in list order, with exactly one
\* sampler pull per sample, also when the sample is then skipped; each of
\* specular_reflect and specular_transmit takes exactly one further pull, after
\* all light pulls of the frame and before any pull of its recursive call,
\* reflection before transmission; a frame that misses or passes through pulls
\* nothing; so a frame with a BSDF pulls |lights| values itself when
\* depth + 1 >= max_depth and |lights| + 2 otherwise.
C11_SamplerPulls ==
    /\ [](\A k \in 1 .. Len(stack) :
            /\ stack[k].own = OwnExpected(stack[k])
            /\ stack[k].i \in 1 .. Len(lights) + 1
            /\ stack[k].pc = "sampled" => stack[k].i <= Len(lights))
    /\ [][Running =>
            /\ pulls' = pulls \/ pulls' = pulls + 1
            /\ pulls' = pulls + 1 <=>
                  \/ Top.pc = "lights" /\ Top.i <= Len(lights)
                  \/ Top.pc \in {"specular_reflect", "specular_transmit"}
            /\ Top.pc = "lights" /\ Top.i <= Len(lights) =>
                  /\ Len(stack') = Len(stack)
                  /\ stack'[Len(stack)].pc = "sampled"
                  /\ stack'[Len(stack)].i = Top.i
                  /\ stack'[Len(stack)].own = Top.i
            /\ Top.pc = "sampled" =>
                  /\ Len(stack') = Len(stack)
                  /\ stack'[Len(stack)].pc = "lights"
                  /\ stack'[Len(stack)].i = Top.i + 1
            /\ Calls =>
                  /\ stack'[Len(stack')].own = 0
                  /\ stack'[Len(stack)].own =
                        CASE stack'[Len(stack')].via = "pass" -> 0
                          [] stack'[Len(stack')].via = "reflect" -> Len(lights) + 1
                          [] stack'[Len(stack')].via = "transmit" -> Len(lights) + 2
            /\ Returns =>
                  Top.own + (pulls' - pulls) =
                      IF Top.isect.bsdf = NoneIdx THEN 0
                      ELSE IF Top.depth + 1 >= max_depth THEN Len(lights)
                      ELSE Len(lights) + 2]_vars

\* a frame with two lights has made its four pulls and waits for the
\* transmitted ray's li, which sampled both lights itself, after the reflected
\* ray's li made pulls of its own
C11_Witness ==
    /\ Len(lights) = 2
    /\ Len(stack) = 2
    /\ stack[1].pc = "transmit_wait"
    /\ stack[1].own = 4
    /\ stack[2].pc = "lights"
    /\ stack[2].own = 2
    /\ pulls > 6

\* the shading normal of the hit before the material is compiled (line 58)
NormalAtHit(f) == SurfaceInteractionNew(f.isect.prim, f.wo).shading_n

\* f(wo, wi) over all lobes of the frame's BSDF for the frame's light sample
SampleBsdfValue(f) == BsdfF(GetBsdf(f.isect, arena_bsdf), arena_bxdf, f.smp.same_hemisphere)

\* the light sample carries radiance with non-zero density and the BSDF
\* reflects it
SampleReachesTest(f) ==
    ~IsBlack(f.smp.li) /\ f.smp.pdf # 0 /\ ~IsBlack(SampleBsdfValue(f))

\* C12: direct lighting in li: a light's sample adds to the result iff its
\* radiance li is non-black, pdf # 0, the BSDF value f(wo, wi) over all lobes is
\* non-black and the sample is unoccluded; it then adds
\* f * li * |dot(wi, n)| / pdf with n the shading normal read before material
\* compilation, and otherwise exactly zero; the occlusion test is evaluated
\* only when li is non-black, pdf # 0 and f is non-black; the lights' terms are
\* summed with equal weight and do not depend on one another.
C12_DirectLighting ==
    /\ [](\A k \in 1 .. Len(stack) :
            stack[k].pc \in {"lights", "sampled"} =>
                stack[k].l = SAdd(stack[k].emitted, stack[k].direct))
    /\ [][Running /\ Top.pc = "sampled" =>
            LET f == SampleBsdfValue(Top)
                adds == SampleReachesTest(Top) /\ Top.smp.unoccluded
                term == IF adds
                        THEN [c \in Channels |->
                                (f[c] * Top.smp.li[c] * AbsDot(Top.smp.wi, NormalAtHit(Top)))
                                    \div Top.smp.pdf]
                        ELSE Black
                after == stack'[Len(stack)]
            IN  /\ ~panicked'
                /\ Len(stack') = Len(stack)
                /\ after.direct = SAdd(Top.direct, term)
                /\ after.l = SAdd(Top.l, term)
                /\ after.emitted = Top.emitted
                /\ after.tested = SampleReachesTest(Top)
                /\ UNCHANGED <<arena_bsdf, arena_bxdf, retval, pulls>>]_vars

\* on a bump-mapped diffuse surface, whose compiled shading normal differs
\* from the one read at the hit, two lights have each added their term and the
\* second had its visibility tested
C12_Witness ==
    /\ Running
    /\ Top.pc = "lights"
    /\ Top.i = 3
    /\ Top.isect.shading_n # Top.n
    /\ Top.direct = <<2, 0>>
    /\ Top.tested

\* the test the helpers make on a BSDF sample q at shading normal ns
SamplePasses(q, ns) == q.pdf > 0 /\ ~IsBlack(q.f) /\ AbsDot(q.wi, ns) # 0

\* f * Li * |dot(wi, ns)| / pdf for BSDF sample q and recursive radiance li
Weighted(q, li, ns) ==
    [c \in Channels |-> (q.f[c] * li[c] * AbsDot(q.wi, ns)) \div q.pdf]

\* the helper running in the top frame hands zero on: specular_reflect lets
\* li go on to specular_transmit with l as it was, specular_transmit lets li
\* return l
HelperReturnsZero(reflecting) ==
    IF reflecting
    THEN /\ Len(stack') = Len(stack)
         /\ stack'[Len(stack)].pc = "specular_transmit"
         /\ stack'[Len(stack)].l = Top.l
         /\ retval' = retval
    ELSE /\ stack' = Pop
         /\ retval' = Top.l

\* C13: specular_reflect and specular_transmit make a recursive li call at
\* depth + 1 iff the BSDF sample restricted to (reflection | specular), resp.
\* (transmission | specular), has pdf > 0, a non-black value f and
\* |dot(wi, ns)| # 0, and the result is then f * Li(recursive) * |dot(wi, ns)| / pdf;
\* in every other case, a missing BSDF included, the helper returns the zero
\* spectrum without recursing, spawning a ray or raising an error; the
\* spawned ray carries a ray differential iff the parent ray carried one.
C13_SpecularHelpers ==
    /\ [](\A k \in 2 .. Len(stack) :
            stack[k].via \in {"reflect", "transmit"} =>
                /\ stack[k].ray.differential = stack[k - 1].ray.differential
                /\ stack[k].depth = stack[k - 1].depth + 1
                /\ stack[k - 1].pc = (IF stack[k].via = "reflect" THEN "reflect_wait"
                                      ELSE "transmit_wait")
                /\ SamplePasses(stack[k - 1].pend, stack[k - 1].isect.shading_n))
    /\ [][Running =>
            LET ns == Top.isect.shading_n
                reflecting == Top.pc \in {"specular_reflect", "reflect_sampled", "reflect_wait"}
            IN  /\ Top.pc \in {"specular_reflect", "specular_transmit"} =>
                      /\ ~Calls
                      /\ ~panicked'
                      /\ IF HasBsdf(Top.isect, arena_bsdf)
                         THEN /\ Len(stack') = Len(stack)
                              /\ stack'[Len(stack)].l = Top.l
                              /\ stack'[Len(stack)].pend \in
                                    SampleF(GetBsdf(Top.isect, arena_bsdf), arena_bxdf,
                                            IF reflecting THEN "SpecRefl" ELSE "SpecTrans")
                         ELSE /\ HelperReturnsZero(reflecting)
                              /\ pulls' = pulls
                /\ Top.pc \in {"reflect_sampled", "transmit_sampled"} =>
                      /\ ~panicked'
                      /\ pulls' = pulls
                      /\ Calls <=> SamplePasses(Top.pend, ns)
                      /\ Calls =>
                            /\ Len(stack') = Len(stack) + 1
                            /\ stack'[Len(stack)].pend = Top.pend
                            /\ stack'[Len(stack)].l = Top.l
                            /\ stack'[Len(stack')].pc = "intersect"
                            /\ stack'[Len(stack')].depth = Top.depth + 1
                            /\ stack'[Len(stack')].ray =
                                  [o |-> Top.isect.p, d |-> Top.pend.wi,
                                   differential |-> Top.ray.differential]
                      /\ ~Calls => HelperReturnsZero(reflecting)
                /\ Top.pc = "reflect_wait" =>
                      /\ Len(stack') = Len(stack)
                      /\ stack'[Len(stack)].pc = "specular_transmit"
                      /\ stack'[Len(stack)].l = SAdd(Top.l, Weighted(Top.pend, retval, ns))
                /\ Top.pc = "transmit_wait" =>
                      /\ stack' = Pop
                      /\ retval' = SAdd(Top.l, Weighted(Top.pend, retval, ns))]_vars

\* a camera ray hit the mirror, the reflected ray's li
\* returned light that specular_reflect weighted into l, and specular_transmit
\* found no transmission lobe and returned zero, so li returned that l
C13_Witness ==
    /\ stack = <<>>
    /\ max_depth = 2
    /\ Len(arena_bsdf) = 1
    /\ Len(arena_bsdf[1].inline) = 1
    /\ pulls = Len(lights) + 2
    /\ ~IsBlack(retval)

====
